---- MODULE Spec2Model ----
(***************************************************************************)
(* State-machine model of the snake game component App (src/unnamed/       *)
(* part_000, with src/constants.ts and src/types.ts).                      *)
(*                                                                         *)
(* The component is a set of React state cells, mutable refs, effects and  *)
(* event handlers.  One action of the model is one JavaScript task: the    *)
(* handler (key press, D-pad press, button click, timer callback) followed *)
(* by the render it causes and the effects of that render, in the order    *)
(* the component declares them; the state updates of one task are batched  *)
(* into one render.  A callback captures the values of the                 *)
(* render that created it: a pending timer carries the food and status its *)
(* moveSnake closure captured, and the registered keydown listener carries *)
(* the status it captured.                                                 *)
(***************************************************************************)
EXTENDS Integers, Sequences, FiniteSets, TLC

\* ---------------------------------------------------------------- constants.ts
GRID_SIZE == 20
INITIAL_SPEED == 150
MIN_SPEED == 60
SPEED_DECREMENT == 2

UP == "UP"
DOWN == "DOWN"
LEFT == "LEFT"
RIGHT == "RIGHT"
Direction == {UP, DOWN, LEFT, RIGHT}

IDLE == "IDLE"
PLAYING == "PLAYING"
PAUSED == "PAUSED"
GAME_OVER == "GAME_OVER"
GameStatus == {IDLE, PLAYING, PAUSED, GAME_OVER}

Point(px, py) == [x |-> px, y |-> py]

INITIAL_SNAKE == <<Point(10, 10), Point(10, 11), Point(10, 12)>>
INITIAL_DIRECTION == UP
\* useState<Point>({ x: 15, y: 15 })
INITIAL_FOOD == Point(15, 15)
\* setScore(s => s + 10)
SCORE_REWARD == 10

\* ---------------------------------------------------------------- bounds
\* Ticks executed in one game (from a start or auto-start to the next).
MaxTicks == 11
\* Ticks of one game that apply another direction than the tick before.
MaxTurns == 3
\* Food cells the sampler is let to return: the first MaxFoodCells free
\* cells of FoodOrder.
MaxFoodCells == 2

\* ---------------------------------------------------------------- helpers
Cells(s) == {s[i] : i \in 1..Len(s)}

isOppositeDirection(dir1, dir2) ==
    \/ dir1 = UP /\ dir2 = DOWN
    \/ dir1 = DOWN /\ dir2 = UP
    \/ dir1 = LEFT /\ dir2 = RIGHT
    \/ dir1 = RIGHT /\ dir2 = LEFT

\* The switch of moveSnake: the head offset by one cell along dir.
NewHead(head, dir) ==
    CASE dir = UP -> Point(head.x, head.y - 1)
      [] dir = DOWN -> Point(head.x, head.y + 1)
      [] dir = LEFT -> Point(head.x - 1, head.y)
      [] dir = RIGHT -> Point(head.x + 1, head.y)

\* The wall test without its top edge.
WallCollision_NoTop(p) ==
    p.x < 0 \/ p.x >= GRID_SIZE \/ p.y >= GRID_SIZE

\* The wall test of moveSnake.
WallCollision(p) ==
    p.x < 0 \/ p.x >= GRID_SIZE \/ p.y < 0 \/ p.y >= GRID_SIZE

\* The self collision test left out.
SelfCollision_None(s, p) == FALSE

\* The self test exempting the last two segments.
SelfCollision_SkipTwo(s, p) ==
    \E i \in 1..Len(s) : i < Len(s) - 1 /\ s[i] = p

\* The self test of moveSnake: some segment other than the last equals p.
SelfCollision(s, p) ==
    \E i \in 1..Len(s) : i # Len(s) /\ s[i] = p

\* newSnake.pop() left out: the tail stays.
Pop_Keep(s) == s

\* [newHead, ...snake], and newSnake.pop() when not eating.
Prepend(p, s) == <<p>> \o s
Pop(s) == SubSeq(s, 1, Len(s) - 1)

\* ---------------------------------------------------------------- state
VARIABLES
    snake, food, direction, status, score, highScore, speed,  \* useState cells
    snakeRef, directionRef, lastProcessedDirectionRef,        \* useRef cells
    speedRef, gameLoopTimeoutRef,
    timers,          \* pending setTimeout callbacks, each with what its closure captured
    listener,        \* the registered keydown listener: the status it captured, or NoListener
    localStorage,    \* the value stored under 'neon-snake-highscore'
    ticks,           \* ticks executed since the last start (bounded by MaxTicks)
    turns            \* ticks that turned the snake since the last start (MaxTurns)

vars == <<snake, food, direction, status, score, highScore, speed,
          snakeRef, directionRef, lastProcessedDirectionRef, speedRef,
          gameLoopTimeoutRef, timers, listener, localStorage, ticks, turns>>

NoListener == "none"
\* useRef<...>(null)
NoTimeout == 0

\* A JavaScript number that may be NaN (parseInt of a malformed string).
Num(n) == [nan |-> FALSE, v |-> n]
NaN == [nan |-> TRUE, v |-> 0]

\* ---------------------------------------------------------------- food sampling
\* The cells the sampler is let to return, in the order they are preferred.
FoodOrder ==
    <<Point(10, 9), Point(10, 8), Point(15, 15), Point(0, 0), Point(9, 9)>>

RECURSIVE FirstFree(_, _, _)
FirstFree(s, i, n) ==
    IF n = 0 \/ i > Len(FoodOrder) THEN {}
    ELSE IF FoodOrder[i] \in Cells(s) THEN FirstFree(s, i + 1, n)
    ELSE {FoodOrder[i]} \cup FirstFree(s, i + 1, n - 1)

Grid == {Point(px, py) : px \in 0..(GRID_SIZE - 1), py \in 0..(GRID_SIZE - 1)}

\* The cells of the grid the rejection loop can break on.
FreeCells(s) == {p \in Grid : ~(\E i \in 1..Len(s) : s[i].x = p.x /\ s[i].y = p.y)}

\* getRandomPosition without the check against the snake.
getRandomPosition_NoReject(s) == {FoodOrder[i] : i \in 1..MaxFoodCells}

\* getRandomPosition: the possible results, narrowed to MaxFoodCells of them
\* (to every free cell when no preferred cell is free).  Empty when the snake
\* fills the grid: the loop never breaks.
getRandomPosition(s) ==
    LET preferred == FirstFree(s, 1, MaxFoodCells) \cap FreeCells(s)
    IN  IF preferred # {} THEN preferred ELSE FreeCells(s)

\* ---------------------------------------------------------------- timers
clearTimeout(id, ts) == {t \in ts : t.id # id}

\* The pending timeout left alone.
ClearIfSet_Never(ref, ts) == ts

\* if (gameLoopTimeoutRef.current) clearTimeout(gameLoopTimeoutRef.current)
ClearIfSet(ref, ts) == IF ref # NoTimeout THEN clearTimeout(ref, ts) ELSE ts

\* Timer ids are never reused while something still holds them: the only
\* holder is gameLoopTimeoutRef.
FreshId(ref, ts) ==
    CHOOSE i \in 1..(Cardinality(ts) + 2) :
        /\ i # ref
        /\ \A t \in ts : t.id # i
        /\ \A j \in 1..(i - 1) : j = ref \/ \E t \in ts : t.id = j

\* setTimeout(moveSnake, delay), moveSnake being the closure of a render
\* whose food and status were f and st.
setTimeout(ref, ts, f, st, delay) ==
    LET id == FreshId(ref, ts)
    IN  [timers |-> ts \cup {[id |-> id, food |-> f, status |-> st, delay |-> delay]},
         ref |-> id]

\* A timer id is an opaque handle, and the component only ever hands one back
\* to clearTimeout: a state is kept up to a renaming of the handles.  The
\* timer gameLoopTimeoutRef holds comes first, the others follow in the order
\* of what they captured, and a handle whose timer has fired or was cleared
\* is the next free one.
StatusIndex(st) == CASE st = IDLE -> 0 [] st = PLAYING -> 1 [] st = PAUSED -> 2 [] OTHER -> 3
TimerKey(t) ==
    (((t.food.x * GRID_SIZE + t.food.y) * 4) + StatusIndex(t.status)) * 1000 + t.delay

RECURSIVE SortTimers(_)
SortTimers(ts) ==
    IF ts = {} THEN <<>>
    ELSE LET t == CHOOSE t \in ts : \A u \in ts : TimerKey(t) <= TimerKey(u)
         IN  <<t>> \o SortTimers(ts \ {t})

Renamed(ref, ts) ==
    LET held == {t \in ts : t.id = ref}
        order == SortTimers(held) \o SortTimers(ts \ held)
    IN  [timers |-> {[order[i] EXCEPT !.id = i] : i \in 1..Len(order)},
         ref |-> IF ref = NoTimeout THEN NoTimeout
                 ELSE IF held # {} THEN 1 ELSE Len(order) + 1]

\* ---------------------------------------------------------------- high score
Digits == <<"0", "1", "2", "3", "4", "5", "6", "7", "8", "9">>
IsDigit(c) == \E d \in 1..Len(Digits) : Digits[d] = c
DigitValue(c) == (CHOOSE d \in 1..Len(Digits) : Digits[d] = c) - 1

RECURSIVE ParseDigits(_, _, _)
\* The longest run of digits of str from position i on, read in base 10.
ParseDigits(str, i, acc) ==
    IF i > Len(str) \/ ~IsDigit(str[i]) THEN acc
    ELSE ParseDigits(str, i + 1, acc * 10 + DigitValue(str[i]))

\* parseInt(str, 10): an optional sign, then digits up to the first
\* character that is none; NaN when there is no digit to read.
parseInt(str) ==
    LET signed == Len(str) >= 1 /\ str[1] \in {"-", "+"}
        first == IF signed THEN 2 ELSE 1
    IN  IF first > Len(str) \/ ~IsDigit(str[first]) THEN NaN
        ELSE IF signed /\ str[1] = "-" THEN Num(0 - ParseDigits(str, first, 0))
        ELSE Num(ParseDigits(str, first, 0))

RECURSIVE DigitsOf(_)
DigitsOf(n) ==
    IF n < 10 THEN <<Digits[n + 1]>> ELSE DigitsOf(n \div 10) \o <<Digits[(n % 10) + 1]>>

\* score.toString()
toString(n) == IF n < 0 THEN <<"-">> \o DigitsOf(0 - n) ELSE DigitsOf(n)

Absent == [present |-> FALSE, value |-> <<>>]
Stored(str) == [present |-> TRUE, value |-> str]

\* What the store may hold when the page is opened.
StoredInputs == {Absent, Stored(<<"a", "b", "c">>), Stored(<<"2", "0">>)}

\* score > highScore (false whenever highScore is NaN)
ScoreExceeds(sc, hs) == ~hs.nan /\ sc > hs.v

\* Load High Score effect: const stored = getItem(...); if (stored) setHighScore(parseInt(stored, 10))
LoadHighScore(store, hs) ==
    IF store.present /\ store.value # <<>> THEN parseInt(store.value) ELSE hs

\* Update High Score effect, run until a render leaves score and highScore
\* alone: the second run finds score > highScore false.
UpdateHighScore(sc, hs) == IF ScoreExceeds(sc, hs) THEN Num(sc) ELSE hs
UpdateStore(sc, hs, store) == IF ScoreExceeds(sc, hs) THEN Stored(toString(sc)) ELSE store

\* ---------------------------------------------------------------- render and effects
\* The useState cells a handler may set, as one record.
Cur == [snake |-> snake, food |-> food, direction |-> direction,
        status |-> status, score |-> score, speed |-> speed]

\* useEffect(() => { xRef.current = x; }, [x])
SyncRef(ref, old, new) == IF new # old THEN new ELSE ref

\* moveSnake with food left out of its dependencies.
MoveSnakeChanged_StatusOnly(n, foodSet) == n.status # status

\* moveSnake = useCallback(..., [food, status, gameOver]): a new closure when
\* setFood was given a new object or status changed.
MoveSnakeChanged(n, foodSet) == foodSet \/ n.status # status

\* The Start/Stop Loop effect has dependencies [status, moveSnake].
LoopEffectRuns(n, foodSet) == n.status # status \/ MoveSnakeChanged(n, foodSet)

\* The loop effect without a cleanup function.
LoopEffectCleanup_None(ref, ts) == ts

\* return () => { if (ref.current) clearTimeout(ref.current); }
LoopEffectCleanup(ref, ts) == ClearIfSet(ref, ts)

\* The body of the Start/Stop Loop effect in a render whose state is n.
LoopEffectBody(n, ref, ts) ==
    IF n.status = PLAYING THEN setTimeout(ref, ts, n.food, n.status, n.speed)
    ELSE [timers |-> ClearIfSet(ref, ts), ref |-> ref]

LoopEffect(n, foodSet, ref, ts) ==
    IF LoopEffectRuns(n, foodSet) THEN LoopEffectBody(n, ref, LoopEffectCleanup(ref, ts))
    ELSE [timers |-> ts, ref |-> ref]

\* The keydown effect has dependencies [status, handleDirection]: the
\* listener is replaced by one that captured the new status.
ListenerAfter(n, l) == IF n.status # status THEN n.status ELSE l

\* The render a task causes and the effects of that render.  n: the useState
\* cells as the task set them; foodSet: setFood was called; lp, ref, ts: the
\* refs and pending timers as the task left them.
Commit(n, foodSet, lp, ref, ts) ==
    LET ran == LoopEffect(n, foodSet, ref, ts)
        loop == Renamed(ran.ref, ran.timers)
    IN  /\ snake' = n.snake
        /\ food' = n.food
        /\ direction' = n.direction
        /\ status' = n.status
        /\ score' = n.score
        /\ speed' = n.speed
        /\ snakeRef' = SyncRef(snakeRef, snake, n.snake)
        /\ directionRef' = SyncRef(directionRef, direction, n.direction)
        /\ speedRef' = SyncRef(speedRef, speed, n.speed)
        /\ lastProcessedDirectionRef' = lp
        /\ highScore' = UpdateHighScore(n.score, highScore)
        /\ localStorage' = UpdateStore(n.score, highScore, localStorage)
        /\ timers' = loop.timers
        /\ gameLoopTimeoutRef' = loop.ref
        /\ listener' = ListenerAfter(n, listener)

\* ---------------------------------------------------------------- construction
\* The useState and useRef initial values.
InitCells ==
    /\ snake = INITIAL_SNAKE
    /\ food = INITIAL_FOOD
    /\ direction = INITIAL_DIRECTION
    /\ status = IDLE
    /\ score = 0
    /\ highScore = Num(0)
    /\ speed = INITIAL_SPEED
    /\ snakeRef = INITIAL_SNAKE
    /\ directionRef = INITIAL_DIRECTION
    /\ lastProcessedDirectionRef = INITIAL_DIRECTION
    /\ speedRef = INITIAL_SPEED
    /\ gameLoopTimeoutRef = NoTimeout
    /\ timers = {}
    /\ listener = NoListener
    /\ ticks = 0
    /\ turns = 0

\* The page opened with nothing stored.
Init == InitCells /\ localStorage = Absent

\* The page opened with any of StoredInputs in the store.
InitStored == InitCells /\ localStorage \in StoredInputs

\* The effects of the first render and the render they cause: the stored
\* high score is loaded, the first food is placed, the Update High Score
\* effect runs on the loaded value, the loop effect finds status IDLE, the
\* keydown listener is registered.
Mount ==
    /\ listener = NoListener
    /\ \E nf \in getRandomPosition(INITIAL_SNAKE) :
        LET loaded == LoadHighScore(localStorage, highScore)
            loop == LoopEffectBody(Cur, gameLoopTimeoutRef, timers)
            ran == LoopEffectBody([Cur EXCEPT !.food = nf], loop.ref,
                                  LoopEffectCleanup(loop.ref, loop.timers))
            loop2 == Renamed(ran.ref, ran.timers)
        IN  /\ food' = nf
            /\ highScore' = UpdateHighScore(score, loaded)
            /\ localStorage' = UpdateStore(score, loaded, localStorage)
            /\ timers' = loop2.timers
            /\ gameLoopTimeoutRef' = loop2.ref
            /\ listener' = status
    /\ UNCHANGED <<snake, direction, status, score, speed, snakeRef, directionRef,
                   lastProcessedDirectionRef, speedRef, ticks, turns>>

\* ---------------------------------------------------------------- controls
Undefined == "undefined"

\* KEY_MAP[e.key]
KEY_MAP(key) ==
    CASE key \in {"ArrowUp", "w", "W"} -> UP
      [] key \in {"ArrowDown", "s", "S"} -> DOWN
      [] key \in {"ArrowLeft", "a", "A"} -> LEFT
      [] key \in {"ArrowRight", "d", "D"} -> RIGHT
      [] OTHER -> Undefined

\* The keydown events delivered: the arrows, a letter, the space bar and a
\* key that is not mapped.
KeyEvents ==
    {[key |-> "ArrowUp", code |-> "ArrowUp"], [key |-> "ArrowDown", code |-> "ArrowDown"],
     [key |-> "ArrowLeft", code |-> "ArrowLeft"], [key |-> "ArrowRight", code |-> "ArrowRight"],
     [key |-> "a", code |-> "KeyA"], [key |-> " ", code |-> "Space"],
     [key |-> "x", code |-> "KeyX"]}

\* handleDirection judging the request against the buffered direction.
handleDirection_Buffered(newDir, dir, lp) ==
    IF ~isOppositeDirection(newDir, dir) THEN newDir ELSE dir

\* handleDirection: the direction cell after a request for newDir.
handleDirection(newDir, dir, lp) ==
    IF ~isOppositeDirection(newDir, lp) THEN newDir ELSE dir

\* startGame without its setScore(0).
startGame_KeepScore(n, nf) ==
    [n EXCEPT !.snake = INITIAL_SNAKE, !.direction = INITIAL_DIRECTION,
              !.speed = INITIAL_SPEED, !.food = nf, !.status = PLAYING]

\* startGame without its setSpeed(INITIAL_SPEED).
startGame_KeepSpeed(n, nf) ==
    [n EXCEPT !.snake = INITIAL_SNAKE, !.direction = INITIAL_DIRECTION, !.score = 0,
              !.food = nf, !.status = PLAYING]

\* startGame, nf being the cell getRandomPosition(INITIAL_SNAKE) returned.
startGame(n, nf) ==
    [n EXCEPT !.snake = INITIAL_SNAKE, !.direction = INITIAL_DIRECTION, !.score = 0,
              !.speed = INITIAL_SPEED, !.food = nf, !.status = PLAYING]

\* The first if of handleKeyDown starting the loop in GameOver too.
KeyMapped_AlsoGameOver(n, e, st, lp) ==
    IF KEY_MAP(e.key) # Undefined
    THEN [n EXCEPT !.direction = handleDirection(KEY_MAP(e.key), n.direction, lp),
                   !.status = IF st \in {IDLE, GAME_OVER} THEN PLAYING ELSE n.status]
    ELSE n

\* The first if of handleKeyDown, st being the status the listener captured.
KeyMapped(n, e, st, lp) ==
    IF KEY_MAP(e.key) # Undefined
    THEN [n EXCEPT !.direction = handleDirection(KEY_MAP(e.key), n.direction, lp),
                   !.status = IF st = IDLE THEN PLAYING ELSE n.status]
    ELSE n

\* The status branches of the second if of handleKeyDown that do not start a game.
KeySpaceToggle(n, st) ==
    IF st = PLAYING THEN [n EXCEPT !.status = PAUSED]
    ELSE IF st = PAUSED THEN [n EXCEPT !.status = PLAYING]
    ELSE n

\* Whether the second if of handleKeyDown calls startGame.
KeySpaceStarts(e, st) == e.code = "Space" /\ st \in {GAME_OVER, IDLE}

\* The listener handles the keydown event e.
handleKeyDownOn(e) ==
    /\ listener # NoListener
    /\  LET n1 == KeyMapped(Cur, e, listener, lastProcessedDirectionRef)
        IN  IF KeySpaceStarts(e, listener)
            THEN \E nf \in getRandomPosition(INITIAL_SNAKE) :
                    /\ Commit(startGame(n1, nf), TRUE, INITIAL_DIRECTION,
                              gameLoopTimeoutRef, timers)
                    /\ ticks' = 0
                    /\ turns' = 0
            ELSE /\ Commit(IF e.code = "Space" THEN KeySpaceToggle(n1, listener) ELSE n1,
                           FALSE, lastProcessedDirectionRef, gameLoopTimeoutRef, timers)
                 /\ ticks' = ticks
                 /\ turns' = turns

handleKeyDown == \E e \in KeyEvents : handleKeyDownOn(e)

\* A press of the D-pad button of direction d: onClick is handleDirection.
DPadButtonOn(d) ==
    /\ listener # NoListener
    /\ Commit([Cur EXCEPT !.direction =
                   handleDirection(d, direction, lastProcessedDirectionRef)],
              FALSE, lastProcessedDirectionRef, gameLoopTimeoutRef, timers)
    /\ UNCHANGED <<ticks, turns>>

DPadButton == \E d \in Direction : DPadButtonOn(d)

\* Whether a button whose onClick is startGame is rendered (START GAME, TRY AGAIN).
StartButtonShown == status = IDLE \/ status = GAME_OVER

ClickStart ==
    /\ listener # NoListener
    /\ StartButtonShown
    /\ \E nf \in getRandomPosition(INITIAL_SNAKE) :
        Commit(startGame(Cur, nf), TRUE, INITIAL_DIRECTION, gameLoopTimeoutRef, timers)
    /\ ticks' = 0
    /\ turns' = 0

\* ---------------------------------------------------------------- the tick
\* The head moveSnake computes: snakeRef.current[0] moved along directionRef.current.
TickHead == NewHead(snakeRef[1], directionRef)

\* The tick applies another direction than the last one did.
IsTurn == directionRef # lastProcessedDirectionRef

\* The two tests of moveSnake that end in gameOver().
Collides(p) == WallCollision(p) \/ SelfCollision(snakeRef, p)

\* isEating comparing the columns only.
IsEating_XOnly(p, f) == p.x = f.x

\* const isEating = newHead.x === food.x && newHead.y === food.y, food being
\* the cell the closure captured.
IsEating(p, f) == p.x = f.x /\ p.y = f.y

\* The decrement without Math.max: nothing holds the delay at MIN_SPEED.
NextSpeed_NoFloor(s) == s - SPEED_DECREMENT

\* Math.min written for Math.max: the floor becomes the value.
NextSpeed_Min(s) == IF s - SPEED_DECREMENT < MIN_SPEED THEN s - SPEED_DECREMENT ELSE MIN_SPEED

\* Math.max(MIN_SPEED, s - SPEED_DECREMENT)
NextSpeed(s) == IF s - SPEED_DECREMENT > MIN_SPEED THEN s - SPEED_DECREMENT ELSE MIN_SPEED

\* gameOver() that also clears the score.
gameOver_ResetScore(n) == [n EXCEPT !.status = GAME_OVER, !.score = 0]

\* gameOver(): setStatus(GAME_OVER) and the pending timeout cleared.
gameOver(n) == [n EXCEPT !.status = GAME_OVER]

\* The timer whose callback runs is no longer pending.
Fired(t) == timers \ {t}

\* The guard of moveSnake: if (status !== PLAYING) return, status being the
\* one the closure captured.
TickRuns(t) == t.status = PLAYING

\* setTimeout(moveSnake, speedRef.current) at the end of moveSnake: the same
\* closure is scheduled again.
ScheduleNext(t, ts) == setTimeout(gameLoopTimeoutRef, ts, t.food, t.status, speedRef)

\* The body of moveSnake after its guard: collision, growth or plain move, then
\* the reschedule. respawn is the set of cells getRandomPosition(newSnake) can
\* return at line 165; an empty set is the loop that never finds a free cell.
TickOutcome(t, respawn) ==
    IF Collides(TickHead)
    THEN Commit(gameOver(Cur), FALSE, directionRef, gameLoopTimeoutRef,
                ClearIfSet(gameLoopTimeoutRef, Fired(t)))
    ELSE IF IsEating(TickHead, t.food)
    THEN \E nf \in respawn :
            LET next == ScheduleNext(t, Fired(t))
            IN  Commit([Cur EXCEPT !.score = score + SCORE_REWARD,
                                   !.speed = NextSpeed(speed),
                                   !.food = nf,
                                   !.snake = Prepend(TickHead, snakeRef)],
                       TRUE, directionRef, next.ref, next.timers)
    ELSE LET next == ScheduleNext(t, Fired(t))
         IN  Commit([Cur EXCEPT !.snake = Pop(Prepend(TickHead, snakeRef))],
                    FALSE, directionRef, next.ref, next.timers)

\* A pending timer fires and its moveSnake closure runs.
moveSnake ==
    \E t \in timers :
        IF ~TickRuns(t)
        THEN /\ Commit(Cur, FALSE, lastProcessedDirectionRef, gameLoopTimeoutRef, Fired(t))
             /\ UNCHANGED <<ticks, turns>>
        ELSE /\ ticks < MaxTicks
             /\ IsTurn => turns < MaxTurns
             /\ ticks' = ticks + 1
             /\ turns' = IF IsTurn THEN turns + 1 ELSE turns
             /\ TickOutcome(t, getRandomPosition(Prepend(TickHead, snakeRef)))

\* ---------------------------------------------------------------- a steered game
\* One way of playing the whole board: up the seed's column, across the right
\* half row by row, then across the left half row by row up to the top. Steer(p)
\* is the direction the player holds when the head is at p; the route visits
\* every cell outside INITIAL_SNAKE once and never reverses.
LeftEdge(p) == IF p.x > GRID_SIZE \div 2 THEN GRID_SIZE \div 2 + 1 ELSE 0

RightEdge(p) ==
    IF p.x > GRID_SIZE \div 2 THEN GRID_SIZE - 1
    ELSE IF p.y > INITIAL_SNAKE[Len(INITIAL_SNAKE)].y THEN GRID_SIZE \div 2
    ELSE GRID_SIZE \div 2 - 1

Steer(p) ==
    IF p.x = INITIAL_SNAKE[1].x /\ p.y <= INITIAL_SNAKE[1].y
    THEN IF p.y > 0 THEN UP ELSE RIGHT
    ELSE IF p.y % 2 = 0
    THEN IF p.x < RightEdge(p) THEN RIGHT
         ELSE IF p.x > GRID_SIZE \div 2 THEN DOWN ELSE UP
    ELSE IF p.x > LeftEdge(p) THEN LEFT
         ELSE IF p.x > GRID_SIZE \div 2 /\ p.y < GRID_SIZE - 1 THEN DOWN
         ELSE IF p.x > GRID_SIZE \div 2 THEN LEFT ELSE UP

\* Math.random() is kind to this player: getRandomPosition returns the cell in
\* front of the steered head whenever the rejection loop accepts it, and any
\* cell the loop accepts otherwise.
SteeredPosition(s) ==
    LET ahead == NewHead(s[1], Steer(s[1]))
    IN  IF ahead \in Grid /\ ahead \notin Cells(s) THEN {ahead} ELSE FreeCells(s)

\* The player presses the arrow key of the steered direction.
SteerKey ==
    \E e \in KeyEvents :
        /\ KEY_MAP(e.key) = Steer(snakeRef[1])
        /\ handleKeyDownOn(e)

\* The player presses Space: start, pause or resume.
SpaceKey == \E e \in KeyEvents : e.code = "Space" /\ handleKeyDownOn(e)

\* A tick of the steered game: the timer fires once the player has steered.
steeredTick ==
    \E t \in timers :
        /\ TickRuns(t)
        /\ directionRef = Steer(snakeRef[1])
        /\ ticks' = ticks + 1
        /\ turns' = IF IsTurn THEN turns + 1 ELSE turns
        /\ TickOutcome(t, SteeredPosition(Prepend(TickHead, snakeRef)))

\* ---------------------------------------------------------------- specification
Next == Mount \/ handleKeyDown \/ DPadButton \/ ClickStart \/ moveSnake

Spec == Init /\ [][Next]_vars

SpecStored == InitStored /\ [][Next]_vars

NextSteered == Mount \/ SteerKey \/ SpaceKey \/ steeredTick

SpecSteered == Init /\ [][NextSteered]_vars

TypeOK ==
    /\ status \in GameStatus
    /\ direction \in Direction
    /\ directionRef \in Direction
    /\ lastProcessedDirectionRef \in Direction
    /\ Len(snake) >= 1
    /\ snakeRef = snake
    /\ directionRef = direction
    /\ speedRef = speed
    /\ ticks \in 0..MaxTicks
    /\ turns \in 0..MaxTurns

\* ---------------------------------------------------------------- claims
InBounds(p) == 0 <= p.x /\ p.x < GRID_SIZE /\ 0 <= p.y /\ p.y < GRID_SIZE

\* A step in which the tick engine ran: a timer fired and moveSnake passed its guard.
TickStep == ticks' = ticks + 1

\* C1: in every reachable state every segment of the snake lies on the grid:
\* 0 <= x < GRID_SIZE and 0 <= y < GRID_SIZE.
C1_SnakeInBounds ==
    /\ \A i \in 1..Len(snake) : InBounds(snake[i])
    /\ \A i \in 1..Len(snakeRef) : InBounds(snakeRef[i])

\* The game ended on a tick that applied Up with the head on the top row: the
\* head that tick computed, (x, -1), was not added.
C1_Witness ==
    /\ status = GAME_OVER
    /\ lastProcessedDirectionRef = UP
    /\ snake[1].y = 0

\* C2: no two consecutive ticks of one game apply opposite directions, and a
\* direction request changes the buffered direction only to a direction that
\* is not opposite to the one the last tick applied.
C2_NoReversal ==
    [][/\ (TickStep /\ ticks >= 1)
            => ~isOppositeDirection(directionRef, lastProcessedDirectionRef)
       /\ TickStep => lastProcessedDirectionRef' = directionRef
       /\ (direction' # direction /\ ~(status = GAME_OVER /\ status' = PLAYING))
            => ~isOppositeDirection(direction', lastProcessedDirectionRef)]_vars

\* Paused after two or more ticks, one of which turned the snake, with a
\* request buffered that the next tick has not applied yet.
C2_Witness ==
    /\ status = PAUSED
    /\ ticks >= 2
    /\ turns >= 1
    /\ direction # lastProcessedDirectionRef

\* C3: exactly one tick callback is pending while status is Playing, and none
\* while it is Idle, Paused or GameOver.
C3_OnePendingTick ==
    Cardinality(timers) = IF status = PLAYING THEN 1 ELSE 0

\* Playing again after a pause or a restart, the snake having grown (a growth
\* tick replaces the tick callback), with the one callback pending.
C3_Witness ==
    /\ status = PLAYING
    /\ Len(snake) > Len(INITIAL_SNAKE)
    /\ ticks >= 2
    /\ Cardinality(timers) = 1

\* C4: every pending tick callback was created under the current status and
\* the current food: none survives a pause, a game over, a start or a food
\* respawn, so the tick that runs compares the head against the current food.
C4_NoStaleTick ==
    \A t \in timers : t.status = status /\ t.food = food /\ status = PLAYING

\* A game started after an earlier one ended (the high score is that game's),
\* its first tick pending.
C4_Witness ==
    /\ status = PLAYING
    /\ ticks = 0
    /\ highScore.v >= SCORE_REWARD
    /\ \E t \in timers : t.food = food

\* C5: while status is Paused no tick executes and snake, food, score and
\* speed stay as they are, whatever direction requests are delivered.
C5_PausedFrozen ==
    [][status = PAUSED => UNCHANGED <<snake, food, score, speed, ticks>>]_vars

\* Paused in mid-game with a direction request accepted into the buffer.
C5_Witness ==
    /\ status = PAUSED
    /\ ticks >= 1
    /\ score >= SCORE_REWARD
    /\ direction # lastProcessedDirectionRef

\* A step in which the space bar is handled.
SpaceStep == \E e \in KeyEvents : e.code = "Space" /\ handleKeyDownOn(e)

\* A step in which a key mapped to direction d is handled.
KeyDirectionStep(d) == \E e \in KeyEvents : KEY_MAP(e.key) = d /\ handleKeyDownOn(e)

\* A step in which a start is handled: a click on START GAME or TRY AGAIN, or
\* the space bar in Idle or GameOver.
StartStep == (status = IDLE \/ status = GAME_OVER) /\ (ClickStart \/ SpaceStep)

\* The head the next tick computes collides, in the words of the claims: it is
\* off the grid or equals a segment other than the current tail.
HeadCollides ==
    LET h == NewHead(snake[1], direction)
    IN  \/ ~InBounds(h)
        \/ \E i \in 1..(Len(snake) - 1) : snake[i] = h

\* The cells a start sets, whatever they were.
FullReset ==
    /\ snake' = INITIAL_SNAKE
    /\ direction' = UP
    /\ lastProcessedDirectionRef' = UP
    /\ score' = 0
    /\ speed' = INITIAL_SPEED

\* C6: status changes only by Idle->Playing (start or directional key),
\* Playing->Paused and Paused->Playing (pause toggle, nothing of the game
\* reset), Playing->GameOver (a tick that collides), GameOver->Playing (start,
\* with the full reset); it never returns to Idle.
C6_StatusTransitions ==
    [][status' # status =>
        \/ /\ status = IDLE /\ status' = PLAYING
           /\ StartStep \/ \E d \in Direction : KeyDirectionStep(d)
        \/ /\ status = PLAYING /\ status' = PAUSED
           /\ SpaceStep
           /\ UNCHANGED <<snake, food, direction, score, speed, highScore,
                          lastProcessedDirectionRef, ticks>>
        \/ /\ status = PAUSED /\ status' = PLAYING
           /\ SpaceStep
           /\ UNCHANGED <<snake, food, direction, score, speed, highScore,
                          lastProcessedDirectionRef, ticks>>
        \/ /\ status = PLAYING /\ status' = GAME_OVER
           /\ TickStep
           /\ HeadCollides
        \/ /\ status = GAME_OVER /\ status' = PLAYING
           /\ StartStep
           /\ FullReset]_vars

\* A second game under way: the first was started, ended in GameOver with a
\* score, and a start left GameOver; it is paused after its first tick.
C6_Witness ==
    /\ status = PAUSED
    /\ ticks = 1
    /\ score = 0
    /\ highScore.v >= SCORE_REWARD

\* C7: in Idle a directional input of any direction from any source, mapped
\* key or D-pad button, moves status to Playing.
C7_AnyDirectionalInputStarts ==
    [][\A d \in Direction :
         (status = IDLE /\ (KeyDirectionStep(d) \/ DPadButtonOn(d)))
            => status' = PLAYING]_vars

\* C8: a start handled in Idle or GameOver yields the seed snake, buffered and
\* last applied direction Up, score 0, speed INITIAL_SPEED, food off the seed
\* snake and status Playing, and leaves highScore as it was.
C8_StartResets ==
    [][StartStep =>
        /\ FullReset
        /\ snakeRef' = INITIAL_SNAKE
        /\ directionRef' = UP
        /\ speedRef' = INITIAL_SPEED
        /\ food' \notin Cells(INITIAL_SNAKE)
        /\ InBounds(food')
        /\ status' = PLAYING
        /\ highScore' = highScore]_vars

\* Just started again after a game that scored and sped up: everything is
\* back at the seed values but the high score.
C8_Witness ==
    /\ status = PLAYING
    /\ ticks = 0
    /\ snake = INITIAL_SNAKE
    /\ speed = INITIAL_SPEED
    /\ score = 0
    /\ highScore.v >= 2 * SCORE_REWARD

\* C9: once the first food is placed, the food cell is never a cell of the snake.
C9_FoodOffSnake ==
    listener # NoListener => \A i \in 1..Len(snake) : snake[i] # food

\* After two growth ticks: the food was respawned twice over the grown snake.
C9_Witness ==
    /\ status = PLAYING
    /\ Len(snake) = Len(INITIAL_SNAKE) + 2
    /\ score = 2 * SCORE_REWARD

\* C10: a tick in Playing whose new head is off the grid or equals a segment
\* other than the current tail sets status to GameOver, leaves snake, food,
\* score and speed as they were, and leaves no tick scheduled.
C10_CollisionEndsGame ==
    [][(status = PLAYING /\ TickStep /\ HeadCollides) =>
        /\ status' = GAME_OVER
        /\ UNCHANGED <<snake, food, score, speed>>
        /\ timers' = {}]_vars

\* The game ended with the head pointing at a cell of the grid: the tick ran
\* into the snake's own body, not into a wall.
C10_Witness ==
    /\ status = GAME_OVER
    /\ InBounds(NewHead(snake[1], lastProcessedDirectionRef))
    /\ \E i \in 1..(Len(snake) - 1) : snake[i] = NewHead(snake[1], lastProcessedDirectionRef)

\* The cell one step from p in direction d, in the words of the claims.
Offset(p, d) ==
    CASE d = UP -> Point(p.x, p.y - 1)
      [] d = DOWN -> Point(p.x, p.y + 1)
      [] d = LEFT -> Point(p.x - 1, p.y)
      [] d = RIGHT -> Point(p.x + 1, p.y)

\* A tick in Playing that does not collide.
MovingTick == status = PLAYING /\ TickStep /\ ~HeadCollides

\* The greater of two integers.
Greater(a, b) == IF a > b THEN a ELSE b

\* C11: a tick that does not collide and whose new head is the food cell makes
\* the snake the new head followed by the whole old snake (one longer), adds 10
\* to score, sets speed to the greater of MIN_SPEED and speed - SPEED_DECREMENT,
\* and places the new food on the grid off the grown snake, so on another cell
\* than the old food.
C11_GrowthTick ==
    [][(MovingTick /\ Offset(snake[1], direction) = food) =>
        /\ snake' = <<Offset(snake[1], direction)>> \o snake
        /\ Len(snake') = Len(snake) + 1
        /\ score' = score + 10
        /\ speed' = Greater(MIN_SPEED, speed - SPEED_DECREMENT)
        /\ InBounds(food')
        /\ food' \notin Cells(snake')
        /\ food' # food]_vars

\* The snake grew once more after speed had reached its floor: the growth
\* tick ran with speed - SPEED_DECREMENT below MIN_SPEED.
C11_Witness ==
    /\ status = PLAYING
    /\ speed = MIN_SPEED
    /\ score > SCORE_REWARD * ((INITIAL_SPEED - MIN_SPEED) \div SPEED_DECREMENT)
    /\ Len(snake) > Len(INITIAL_SNAKE) + (INITIAL_SPEED - MIN_SPEED) \div SPEED_DECREMENT

\* C12: a tick that does not collide and whose new head is not the food cell
\* makes the snake the new head followed by the old snake without its last
\* segment, and leaves food, score, speed and status as they were; the new head
\* is the old head moved one cell in the buffered direction (Up y-1, Down y+1,
\* Left x-1, Right x+1).
C12_PlainMove ==
    [][(MovingTick /\ Offset(snake[1], direction) # food) =>
        /\ snake' = <<Offset(snake[1], direction)>> \o SubSeq(snake, 1, Len(snake) - 1)
        /\ Len(snake') = Len(snake)
        /\ UNCHANGED <<food, score, speed, status>>]_vars

\* A grown snake has moved sideways without eating: a plain tick applied a
\* turn to a snake longer than the seed.
C12_Witness ==
    /\ status = PLAYING
    /\ Len(snake) = Len(INITIAL_SNAKE) + 1
    /\ lastProcessedDirectionRef = RIGHT
    /\ snake[1] = Offset(snake[2], RIGHT)
    /\ snake[2] = Offset(snake[3], UP)

\* C13: in every reachable state MIN_SPEED <= speed <= INITIAL_SPEED, and
\* speed rises in no step but a start, so between two consecutive starts it
\* never increases.
C13_SpeedRange ==
    [][/\ MIN_SPEED <= speed /\ speed <= INITIAL_SPEED
       /\ MIN_SPEED <= speed' /\ speed' <= INITIAL_SPEED
       /\ speed' > speed => StartStep]_vars

\* A new game at INITIAL_SPEED after a game that grew past the point where
\* speed reaches MIN_SPEED: the floor was held, and the start raised speed.
C13_Witness ==
    /\ status = PLAYING
    /\ speed = INITIAL_SPEED
    /\ score = 0
    /\ highScore.v > SCORE_REWARD * ((INITIAL_SPEED - MIN_SPEED) \div SPEED_DECREMENT)

\* C14: score decreases in no step but a start, which sets it to 0; a tick
\* that collides, a pause, a resume and a direction request leave it as it
\* was, and in GameOver it stays as the game left it until the next start.
C14_ScoreKept ==
    [][score' # score =>
        /\ score' < score => (StartStep /\ score' = 0)
        /\ ~(status = PLAYING /\ TickStep /\ HeadCollides)
        /\ ~((status = PLAYING \/ status = PAUSED) /\ SpaceStep)
        /\ \A d \in Direction : ~(KeyDirectionStep(d) \/ DPadButtonOn(d))
        /\ status = GAME_OVER => StartStep]_vars

\* A game that scored twice has ended on a wall: the collision tick left the
\* score on display.
C14_Witness ==
    /\ status = GAME_OVER
    /\ score = 2 * SCORE_REWARD
    /\ ~InBounds(Offset(snake[1], lastProcessedDirectionRef))

\* a >= n and a < b as JavaScript evaluates them: false when a side is NaN.
AtLeast(a, n) == ~a.nan /\ a.v >= n

LessThan(a, b) == ~a.nan /\ ~b.nan /\ a.v < b.v

\* The store holds nothing, or a string parseInt makes no integer of.
Unreadable(store) == ~store.present \/ parseInt(store.value).nan

\* C15: once the stored high score is loaded, highScore never decreases (a
\* start does not reset it), after every change of score highScore >= score,
\* and whenever highScore increases the store is rewritten to its new value.
C15_HighScoreKept ==
    [][listener # NoListener =>
        /\ ~LessThan(highScore', highScore)
        /\ score' # score => AtLeast(highScore', score')
        /\ LessThan(highScore, highScore')
              => (localStorage'.present /\ parseInt(localStorage'.value) = highScore')]_vars

\* C16: when the store is absent or holds no parseable integer at startup,
\* highScore is 0 after loading, and a later score above 0 still raises
\* highScore and overwrites the store.
C16_UnreadableStoreIsZero ==
    [][Unreadable(localStorage) =>
        /\ (listener = NoListener /\ listener' # NoListener) => highScore' = Num(0)
        /\ (listener # NoListener /\ score' > 0 /\ score' # score)
              => (highScore' = Num(score') /\ localStorage' = Stored(toString(score')))]_vars

C18_RespawnHasFreeCell ==
    (status = PLAYING /\ ~HeadCollides /\ Offset(snake[1], direction) = food)
        => Grid \ (Cells(snake) \cup {food}) # {}

\* C19: no tick that grows the snake moves the head into the cell of the
\* current tail: a new head that equals the food cell differs from every
\* segment, the tail included, so the tail's exemption from the self test
\* never leaves a grown snake with a duplicate.
C19_GrowthOffTail ==
    [][/\ (MovingTick /\ Offset(snake[1], direction) = food)
            => \A i \in 1..Len(snake) : snake[i] # Offset(snake[1], direction)
       /\ (TickStep /\ Len(snake') > Len(snake))
            => /\ snake'[1] # snake[Len(snake)]
               /\ \A i \in 2..Len(snake') : snake'[i] # snake'[1]]_vars

\* The snake grew a second time on a tick that turned its head back towards
\* its own body: the new head lies beside the fourth segment.
C19_Witness ==
    /\ status = PLAYING
    /\ Len(snake) = Len(INITIAL_SNAKE) + 2
    /\ score = 2 * SCORE_REWARD
    /\ ticks = 4
    /\ snake[1] = Offset(snake[2], RIGHT)
    /\ snake[4] = Offset(snake[1], DOWN)

\* C20: in every reachable state, whatever the status, score is 10 times the
\* number of segments the snake has beyond three, and the snake never has
\* fewer than three segments.
C20_ScoreCountsSegments ==
    /\ Len(snake) >= 3
    /\ score = 10 * (Len(snake) - 3)

\* Paused in a second game that has grown once, after a first game that grew
\* twice: the start brought score and length back together.
C20_Witness ==
    /\ status = PAUSED
    /\ Len(snake) = Len(INITIAL_SNAKE) + 1
    /\ score = SCORE_REWARD
    /\ highScore.v = 2 * SCORE_REWARD

====
